---- MODULE Spec2Model ----
(***************************************************************************)
(* Model of the attendance bot (src/bot.py): the /mark_attendance          *)
(* conversation, the three MongoDB collections and the commands that       *)
(* write to them.  One action per incoming Telegram update; updates are    *)
(* processed one at a time (Application.run_polling without concurrent     *)
(* updates), so every handler is one atomic step.                          *)
(***************************************************************************)
EXTENDS Integers, Sequences, FiniteSets, Bags, TLC

\* ---------------------------------------------------------------- bounds
MaxEmployees == 2          \* employees ever added
MaxDay == 1                \* the clock runs over BaseDate .. BaseDate + MaxDay
MaxSpan == 9               \* bulk absences are tried over BaseDate .. BaseDate + MaxSpan
MaxHolidays == 2           \* holidays in the store when a bulk absence is tried
MaxReportDay == 2          \* reports are asked for over BaseDate .. BaseDate + MaxReportDay
MaxHolidayDay == 3         \* holidays are marked over BaseDate .. BaseDate + MaxHolidayDay
MaxRestarts == 8           \* restarts of run_polling that are followed

\* ------------------------------------------------------------- constants
END == -1                  \* ConversationHandler.END
MARKING_ATTENDANCE == 1
GETTING_REASON == 2
SUNDAY == 6                \* datetime.date.weekday() of a Sunday

Reasons == {"sick"}                    \* texts the operator types
Descriptions == {"fest"}               \* holiday descriptions
Statuses == {"present", "absent"}      \* ^(present|absent)_\d+$
Days == 0..MaxDay                      \* datetime.date values, as offsets from BaseDate

\* ------------------------------------------------------------- calendar
\* 30-11-2024, a Saturday: the window crosses a month boundary and holds a
\* working day followed by a Sunday.
BaseDate == <<30, 11, 2024>>

IsLeap(y) == (y % 4 = 0 /\ y % 100 # 0) \/ y % 400 = 0

DaysInMonth(m, y) ==
  IF m = 2 THEN (IF IsLeap(y) THEN 29 ELSE 28)
  ELSE IF m \in {4, 6, 9, 11} THEN 30 ELSE 31

\* date + timedelta(days=1) on a <<day, month, year>> triple
NextDate(d) ==
  IF d[1] < DaysInMonth(d[2], d[3]) THEN <<d[1] + 1, d[2], d[3]>>
  ELSE IF d[2] < 12 THEN <<1, d[2] + 1, d[3]>>
  ELSE <<1, 1, d[3] + 1>>

\* date - timedelta(days=1)
PrevDate(d) ==
  IF d[1] > 1 THEN <<d[1] - 1, d[2], d[3]>>
  ELSE IF d[2] > 1 THEN <<DaysInMonth(d[2] - 1, d[3]), d[2] - 1, d[3]>>
  ELSE <<31, 12, d[3] - 1>>

RECURSIVE DateAt(_)
DateAt(n) ==
  IF n = 0 THEN BaseDate
  ELSE IF n > 0 THEN NextDate(DateAt(n - 1))
  ELSE PrevDate(DateAt(n + 1))

\* date.strftime("%d-%m-%Y"): the zero padded fields in the order day, month,
\* year; the string "DD-MM-YYYY" is the triple <<DD, MM, YYYY>>.
format_date(n) == DateAt(n)

\* date.weekday(): Monday is 0, Sunday is 6; BaseDate is a Saturday (5).
weekday(n) == (n + 5) % 7

\* ------------------------------------------------------------ identifiers
\* An employee _id is an ObjectId; the session and the attendance records
\* hold str(_id).
NewObjectId(n) == [oid |-> n, type |-> "ObjectId"]   \* the n-th _id insert_one generates
str(id) == [oid |-> id.oid, type |-> "str"]
ObjectId(s) == [oid |-> s.oid, type |-> "ObjectId"]  \* ObjectId(emp_id) of a str

VARIABLES
  employees,     \* collection db.employees, in insertion order
  attendance,    \* collection db.attendance: a bag of documents (_id left out)
  holidays,      \* collection db.holidays, in insertion order
  user_data,     \* context.user_data of the operator (a dict)
  conv_state,    \* state the ConversationHandler holds for the operator
  today,         \* datetime.date.today()
  keyboards,     \* simple ids of the inline buttons sent to the chat so far
  records,       \* the list the last event handed to attendance.insert_many, if any
  event,         \* the last event: a conversation update, another command, a day change
  max_retries,   \* local of main: the polling conflicts the restart loop still accepts
  main_pc,       \* where main is: in run_polling, or past the restart loop
  restarts       \* how many times main has entered run_polling again after a failure

main_loop == <<max_retries, main_pc, restarts>>

vars == <<employees, attendance, holidays, user_data, conv_state, today,
          keyboards, records, event, main_loop>>

\* main up to its first call of run_polling: max_retries = 5, and the loop
\* condition max_retries > 0 holds
InitMain ==
  /\ max_retries = 5
  /\ main_pc = "run_polling"
  /\ restarts = 0

store == <<employees, attendance, holidays>>

\* ------------------------------------------------------------ Python dicts
\* context.user_data and the flow are dicts with optional keys: functions
\* whose domain is the set of keys present.
EmptyDict == [k \in {} |-> k]
Put(d, k, v) == [x \in DOMAIN d \cup {k} |-> IF x = k THEN v ELSE d[x]]
Del(d, k) == [x \in DOMAIN d \ {k} |-> d[x]]
Has(d, k) == k \in DOMAIN d

\* user_data['attendance'] is a dict emp_id -> {status[, reason]} that keeps
\* insertion order: a sequence of [key, value]; assigning to a key that is
\* present replaces the value in place.
HasKey(acc, k) == \E i \in 1..Len(acc) : acc[i].key = k
DictSet(acc, k, v) ==
  IF HasKey(acc, k)
  THEN [i \in 1..Len(acc) |-> IF acc[i].key = k THEN [key |-> k, value |-> v] ELSE acc[i]]
  ELSE Append(acc, [key |-> k, value |-> v])
DictGet(acc, k) == acc[CHOOSE i \in 1..Len(acc) : acc[i].key = k].value

\* ------------------------------------------------------------------ store
\* list(employees.find({"active": True}, {"_id": 1, "name": 1})): the active
\* documents in insertion order, projected (the name plays no part here)
active_employees ==
  LET found == SelectSeq(employees, LAMBDA e : e.active)
  IN [i \in 1..Len(found) |-> [_id |-> found[i]._id]]

\* holidays.find_one({"date": date_str})
is_holiday(date_str) == \E i \in 1..Len(holidays) : holidays[i].date = date_str

\* the unique index on (employee_id, date)
KeyOf(doc) == <<doc.employee_id, doc.date>>
HasAttendanceKey(coll, doc) == \E d \in BagToSet(coll) : KeyOf(d) = KeyOf(doc)

\* mutants of insert_document: no unique index; an upsert on the key
insert_document_no_index(coll, doc) == coll (+) SetToBag({doc})
insert_document_upsert(coll, doc) ==
  LET kept == {d \in BagToSet(coll) : KeyOf(d) # KeyOf(doc)}
  IN [d \in kept \cup {doc} |-> IF d = doc THEN 1 ELSE coll[d]]

\* one document of an insert_many: rejected with a duplicate key error when
\* its key is in the collection, appended otherwise
insert_document(coll, doc) ==
  IF HasAttendanceKey(coll, doc) THEN coll ELSE coll (+) SetToBag({doc})

\* mutant of insert_many: ordered=True, which stops at the first error
RECURSIVE insert_many_ordered(_, _)
insert_many_ordered(coll, docs) ==
  IF docs = <<>> \/ HasAttendanceKey(coll, Head(docs)) THEN coll
  ELSE insert_many_ordered(coll (+) SetToBag({Head(docs)}), Tail(docs))

\* attendance.insert_many(docs, ordered=False): every document is attempted,
\* the errors are reported together at the end
RECURSIVE insert_many(_, _)
insert_many(coll, docs) ==
  IF docs = <<>> THEN coll
  ELSE insert_many(insert_document(coll, Head(docs)), Tail(docs))

Init ==
  /\ employees = <<>>
  /\ attendance = EmptyBag
  /\ holidays = <<>>
  /\ user_data = EmptyDict
  /\ conv_state = END
  /\ today = 0
  /\ keyboards = {}
  /\ records = <<>>
  /\ event = [cmd |-> "command"]
  /\ InitMain

\* ------------------------------------------------------- attendance flow
\* mutant of finalize_attendance: the error of insert_many is not caught, so
\* a batch with a duplicate key skips the cleanup
finalize_attendance_raises(ud) ==
  LET acc == ud.attendance_flow.attendance
      docs == [i \in 1..Len(acc) |->
                 [employee_id |-> acc[i].key,
                  date |-> format_date(today),
                  status |-> acc[i].value.status,
                  reason |-> IF Has(acc[i].value, "reason")
                             THEN acc[i].value.reason ELSE ""]]
      raised == \E i \in 1..Len(docs) : HasAttendanceKey(attendance, docs[i])
  IN /\ records' = docs
     /\ attendance' = insert_many(attendance, docs)
     /\ user_data' = IF raised THEN ud ELSE Del(ud, "attendance_flow")
     /\ conv_state' = IF raised THEN conv_state ELSE END
     /\ UNCHANGED keyboards

\* finalize_attendance, entered with the user_data the calling handler left
finalize_attendance(ud) ==
  LET acc == ud.attendance_flow.attendance
      today_str == format_date(today)
      docs == [i \in 1..Len(acc) |->
                 [employee_id |-> acc[i].key,
                  date |-> today_str,
                  status |-> acc[i].value.status,
                  reason |-> IF Has(acc[i].value, "reason")
                             THEN acc[i].value.reason ELSE ""]]
  IN /\ records' = docs
     /\ attendance' = insert_many(attendance, docs)
     /\ user_data' = Del(ud, "attendance_flow")
     /\ conv_state' = END
     /\ UNCHANGED keyboards

\* mutant of next_employee: the cursor is not incremented
next_employee_same_index(ud) ==
  /\ user_data' = ud
  /\ keyboards' = keyboards \cup {ud.attendance_flow.current_index + 1}
  /\ conv_state' = MARKING_ATTENDANCE
  /\ UNCHANGED attendance /\ records' = <<>>

\* mutant of next_employee: the employee list is read again from the store
next_employee_refreshes(ud) ==
  LET flow == Put(ud.attendance_flow, "employees", active_employees)
      current_index == flow.current_index + 1
  IN IF current_index >= Len(flow.employees)
     THEN finalize_attendance(ud)
     ELSE /\ user_data' = Put(ud, "attendance_flow",
                              Put(flow, "current_index", current_index))
          /\ keyboards' = keyboards \cup {current_index + 1}
          /\ conv_state' = MARKING_ATTENDANCE
          /\ UNCHANGED <<attendance>> /\ records' = <<>>

\* mutant of next_employee: the end of the list is detected one step late
next_employee_late_check(ud) ==
  LET flow == ud.attendance_flow
      current_index == flow.current_index + 1
  IN IF current_index > Len(flow.employees)
     THEN finalize_attendance(ud)
     ELSE /\ user_data' = Put(ud, "attendance_flow",
                              Put(flow, "current_index", current_index))
          /\ keyboards' = keyboards \cup {current_index + 1}
          /\ conv_state' = MARKING_ATTENDANCE
          /\ UNCHANGED <<attendance>> /\ records' = <<>>

\* next_employee, entered with the user_data the calling handler left
next_employee(ud) ==
  LET flow == ud.attendance_flow
      current_index == flow.current_index + 1
  IN IF current_index >= Len(flow.employees)
     THEN finalize_attendance(ud)
     ELSE /\ user_data' = Put(ud, "attendance_flow",
                              Put(flow, "current_index", current_index))
          /\ keyboards' = keyboards \cup {current_index + 1}
          /\ conv_state' = MARKING_ATTENDANCE
          /\ UNCHANGED <<attendance>> /\ records' = <<>>

\* mutant of new_flow: the accumulator of the session in flight is kept
new_flow_keeps_attendance(employee_list) ==
  [employees |-> employee_list,
   attendance_map |-> [i \in 1..Len(employee_list) |-> str(employee_list[i]._id)],
   current_index |-> 0,
   attendance |-> IF Has(user_data, "attendance_flow")
                  THEN user_data.attendance_flow.attendance ELSE <<>>]

\* the flow /mark_attendance stores once its checks have passed
new_flow(employee_list) ==
  [employees |-> employee_list,
   attendance_map |-> [i \in 1..Len(employee_list) |-> str(employee_list[i]._id)],
   current_index |-> 0,
   attendance |-> <<>>]

\* mark_attendance once today has passed the Sunday and the holiday check
start_session ==
  IF active_employees = <<>>
  THEN /\ conv_state' = END                                   \* returns END
       /\ UNCHANGED <<user_data, keyboards>>
  ELSE /\ user_data' = Put(user_data, "attendance_flow", new_flow(active_employees))
       /\ keyboards' = keyboards \cup {1}
       /\ conv_state' = MARKING_ATTENDANCE

\* mutant of mark_attendance: the Sunday check is missing
mark_attendance_any_weekday ==
  IF is_holiday(format_date(today))
  THEN UNCHANGED <<user_data, conv_state, keyboards>>
  ELSE start_session

mark_attendance ==
  IF weekday(today) = SUNDAY \/ is_holiday(format_date(today))
  THEN UNCHANGED <<user_data, conv_state, keyboards>>        \* returns None
  ELSE start_session

\* A handler that raises leaves the conversation state and the dict as they
\* were up to the raise.
handle_attendance_choice(status, simple_id) ==
  IF ~Has(user_data, "attendance_flow")
  THEN UNCHANGED <<user_data, conv_state, keyboards, attendance>> /\ records' = <<>>  \* KeyError
  ELSE LET flow == user_data.attendance_flow IN
       IF simple_id \notin DOMAIN flow.attendance_map
       THEN UNCHANGED <<user_data, conv_state, keyboards, attendance>> /\ records' = <<>>  \* KeyError
       ELSE LET emp_id == flow.attendance_map[simple_id]
                flow1 == Put(flow, "attendance",
                             DictSet(flow.attendance, emp_id, [status |-> status]))
            IN IF status = "absent"
               THEN /\ user_data' = Put(user_data, "attendance_flow",
                                        Put(Put(flow1, "current_employee", emp_id),
                                            "current_simple_id", simple_id))
                    /\ conv_state' = GETTING_REASON
                    /\ UNCHANGED <<keyboards, attendance>> /\ records' = <<>>
               ELSE next_employee(Put(user_data, "attendance_flow", flow1))

handle_reason(reason) ==
  IF \/ ~Has(user_data, "attendance_flow")
     \/ ~Has(user_data.attendance_flow, "current_employee")
     \/ ~HasKey(user_data.attendance_flow.attendance,
                user_data.attendance_flow.current_employee)
  THEN UNCHANGED <<user_data, conv_state, keyboards, attendance>> /\ records' = <<>>  \* KeyError
  ELSE LET flow == user_data.attendance_flow
           emp_id == flow.current_employee
           flow1 == Put(flow, "attendance",
                        DictSet(flow.attendance, emp_id,
                                Put(DictGet(flow.attendance, emp_id), "reason", reason)))
       IN next_employee(Put(user_data, "attendance_flow", flow1))

\* mutant of conv_handler: the handlers match whatever the state is
conv_handler_any_state(kind) ==
  IF kind = "mark_attendance" THEN "mark_attendance"
  ELSE IF kind = "callback_query" THEN "handle_attendance_choice"
  ELSE IF kind = "text" THEN "handle_reason"
  ELSE "none"

\* ConversationHandler.check_update: the entry point matches in every state
\* (allow_reentry), a state's handlers only in that state, and there are no
\* fallbacks.
conv_handler(kind) ==
  IF kind = "mark_attendance" THEN "mark_attendance"
  ELSE IF conv_state = MARKING_ATTENDANCE /\ kind = "callback_query"
  THEN "handle_attendance_choice"
  ELSE IF conv_state = GETTING_REASON /\ kind = "text"
  THEN "handle_reason"
  ELSE "none"

\* ---------------------------------------------------------------- updates
\* /mark_attendance
MarkAttendance ==
  /\ event' = [cmd |-> "mark_attendance"]
  /\ mark_attendance
  /\ UNCHANGED <<employees, attendance, holidays, today, main_loop>> /\ records' = <<>>

\* a press on one of the buttons sent so far: callback data <status>_<simple_id>
CallbackQuery ==
  \E status \in Statuses, simple_id \in keyboards :
    /\ event' = [cmd |-> "callback_query", status |-> status, simple_id |-> simple_id]
    /\ IF conv_handler("callback_query") = "handle_attendance_choice"
       THEN handle_attendance_choice(status, simple_id)
       ELSE UNCHANGED <<user_data, conv_state, keyboards, attendance>> /\ records' = <<>>
    /\ UNCHANGED <<employees, holidays, today, main_loop>>

\* a text message that is not a command
TextMessage ==
  \E text \in Reasons :
    /\ event' = [cmd |-> "text", text |-> text]
    /\ IF conv_handler("text") = "handle_reason"
       THEN handle_reason(text)
       ELSE UNCHANGED <<user_data, conv_state, keyboards, attendance>> /\ records' = <<>>
    /\ UNCHANGED <<employees, holidays, today, main_loop>>

\* /add_employee <name>
add_employee ==
  /\ Len(employees) < MaxEmployees
  /\ event' = [cmd |-> "command"]
  /\ employees' = Append(employees, [_id |-> NewObjectId(Len(employees) + 1), active |-> TRUE])
  /\ user_data' = Del(user_data, "employee_map")
  /\ UNCHANGED <<attendance, holidays, conv_state, today, keyboards, main_loop>> /\ records' = <<>>

\* /list_employees
list_employees ==
  /\ event' = [cmd |-> "command"]
  /\ LET employee_list == active_employees IN
       IF employee_list = <<>>
       THEN UNCHANGED user_data
       ELSE user_data' = Put(user_data, "employee_map",
                             [i \in 1..Len(employee_list) |-> str(employee_list[i]._id)])
  /\ UNCHANGED <<employees, attendance, holidays, conv_state, today, keyboards, main_loop>> /\ records' = <<>>

\* context.user_data.get('employee_map', {})
employee_map == IF Has(user_data, "employee_map") THEN user_data.employee_map ELSE <<>>

\* mutant of remove_employee: the document is deleted (delete_one)
remove_employee_delete_one ==
  \E simple_id \in 1..MaxEmployees :
    /\ event' = [cmd |-> "command"]
    /\ IF employee_map = <<>> \/ simple_id \notin DOMAIN employee_map
       THEN UNCHANGED <<employees, user_data>>
       ELSE LET id == ObjectId(employee_map[simple_id])
            IN /\ employees' = SelectSeq(employees, LAMBDA e : e._id # id)
               /\ user_data' = Del(user_data, "employee_map")
    /\ UNCHANGED <<attendance, holidays, conv_state, today, keyboards, main_loop>> /\ records' = <<>>

\* /remove_employee <simple_id>
remove_employee ==
  \E simple_id \in 1..MaxEmployees :
    /\ event' = [cmd |-> "command"]
    /\ IF employee_map = <<>> \/ simple_id \notin DOMAIN employee_map
       THEN UNCHANGED <<employees, user_data>>
       ELSE LET id == ObjectId(employee_map[simple_id])
                modified == \E i \in 1..Len(employees) :
                               employees[i]._id = id /\ employees[i].active
            IN /\ employees' = [i \in 1..Len(employees) |->
                                  IF employees[i]._id = id
                                  THEN [employees[i] EXCEPT !.active = FALSE]
                                  ELSE employees[i]]
               /\ user_data' = IF modified THEN Del(user_data, "employee_map") ELSE user_data
    /\ UNCHANGED <<attendance, holidays, conv_state, today, keyboards, main_loop>> /\ records' = <<>>

\* mutant of mark_holiday_args: the holiday of today is replaced (an upsert)
mark_holiday_upsert(description) ==
  /\ holidays' = IF is_holiday(format_date(today))
                 THEN [i \in 1..Len(holidays) |->
                         IF holidays[i].date = format_date(today)
                         THEN [holidays[i] EXCEPT !.description = description]
                         ELSE holidays[i]]
                 ELSE Append(holidays, [date |-> format_date(today),
                                        description |-> description])
  /\ UNCHANGED <<employees, attendance, user_data, conv_state, today, keyboards, main_loop>> /\ records' = <<>>

\* mark_holiday on the argument <description>: today becomes a holiday
\* unless it is one
mark_holiday_args(description) ==
  /\ holidays' = IF is_holiday(format_date(today)) THEN holidays   \* DuplicateKeyError
                 ELSE Append(holidays, [date |-> format_date(today),
                                        description |-> description])
  /\ UNCHANGED <<employees, attendance, user_data, conv_state, today, keyboards, main_loop>> /\ records' = <<>>

\* /mark_holiday <description>
mark_holiday ==
  \E description \in Descriptions :
    /\ event' = [cmd |-> "command"]
    /\ mark_holiday_args(description)

\* remove_holiday on the argument DD-MM-YYYY, the date of day d
remove_holiday_args(d) ==
  /\ holidays' = SelectSeq(holidays, LAMBDA h : h.date # format_date(d))
  /\ UNCHANGED <<employees, attendance, user_data, conv_state, today, keyboards, main_loop>> /\ records' = <<>>

\* /remove_holiday DD-MM-YYYY
remove_holiday ==
  \E d \in Days :
    /\ event' = [cmd |-> "command"]
    /\ remove_holiday_args(d)

\* mutant of absence_records: the end date is left out (< for <=)
RECURSIVE absence_records_exclusive(_, _, _, _)
absence_records_exclusive(emp_id, current_date, end_date, reason) ==
  IF current_date >= end_date THEN <<>>
  ELSE IF weekday(current_date) = SUNDAY \/ is_holiday(format_date(current_date))
  THEN absence_records_exclusive(emp_id, current_date + 1, end_date, reason)
  ELSE <<[employee_id |-> emp_id, date |-> format_date(current_date),
          status |-> "absent", reason |-> reason]>>
       \o absence_records_exclusive(emp_id, current_date + 1, end_date, reason)

\* the while loop of multiday_absence: one absent record per date of
\* current_date .. end_date that is neither a Sunday nor a holiday
RECURSIVE absence_records(_, _, _, _)
absence_records(emp_id, current_date, end_date, reason) ==
  IF current_date > end_date THEN <<>>
  ELSE IF weekday(current_date) = SUNDAY \/ is_holiday(format_date(current_date))
  THEN absence_records(emp_id, current_date + 1, end_date, reason)
  ELSE <<[employee_id |-> emp_id, date |-> format_date(current_date),
          status |-> "absent", reason |-> reason]>>
       \o absence_records(emp_id, current_date + 1, end_date, reason)

\* multiday_absence on the arguments <simple_id> <start> <end> [reason words]
multiday_absence_args(simple_id, start_date, end_date, words) ==
  /\ IF \/ employee_map = <<>>
        \/ simple_id \notin DOMAIN employee_map
        \/ start_date > end_date
     THEN UNCHANGED attendance /\ records' = <<>>
     ELSE LET reason == IF Len(words) > 0 THEN words[1] ELSE "Not specified"
              docs == absence_records(employee_map[simple_id], start_date, end_date, reason)
          IN IF docs # <<>>
             THEN /\ records' = docs
                  /\ attendance' = insert_many(attendance, docs)
             ELSE UNCHANGED attendance /\ records' = <<>>
  /\ UNCHANGED <<employees, holidays, user_data, conv_state, today, keyboards, main_loop>>

\* /multiday_absence <simple_id> <start> <end> [reason]
multiday_absence ==
  \E simple_id \in 1..MaxEmployees, start_date \in Days, end_date \in Days,
     words \in {<<>>} \cup {<<r>> : r \in Reasons} :
    /\ event' = [cmd |-> "command"]
    /\ multiday_absence_args(simple_id, start_date, end_date, words)

\* midnight: datetime.date.today() moves on by one day
DayChange ==
  /\ today < MaxDay
  /\ today' = today + 1
  /\ event' = [cmd |-> "day_change"]
  /\ UNCHANGED <<employees, attendance, holidays, user_data, conv_state, keyboards, main_loop>> /\ records' = <<>>

Next ==
  \/ MarkAttendance
  \/ CallbackQuery
  \/ TextMessage
  \/ add_employee
  \/ list_employees
  \/ remove_employee
  \/ mark_holiday
  \/ remove_holiday
  \/ multiday_absence
  \/ DayChange

Spec == Init /\ [][Next]_vars

\* ================================================================ claims
\* the session the operator is in, when there is one
Flow == user_data.attendance_flow
\* a step in which finalize_attendance ran: it alone deletes the flow
FinalizeStep == Has(user_data, "attendance_flow") /\ ~Has(user_data', "attendance_flow")
\* a date string that is the date of a Sunday
DateIsSunday(date_str) == \E n \in Days : format_date(n) = date_str /\ weekday(n) = SUNDAY

\* C1: the list Finalize submits holds exactly one record per employee of the
\* list snapshotted at Start, each with one status of {present, absent}.
C1_OneRecordPerSnapshotEmployee ==
  [][FinalizeStep =>
       /\ Len(records') = Len(Flow.employees)
       /\ \A i \in 1..Len(Flow.employees) :
            Cardinality({j \in 1..Len(records') :
                           records'[j].employee_id = str(Flow.employees[i]._id)}) = 1
       /\ \A j \in 1..Len(records') : records'[j].status \in Statuses]_vars

\* C2: in AwaitingDecision(index) a Decision that does not name the employee
\* at index changes neither the cursor, nor the accumulator, nor the state.
C2_MismatchedDecisionRejected ==
  [][(/\ event'.cmd = "callback_query"
      /\ conv_state = MARKING_ATTENDANCE
      /\ Has(user_data, "attendance_flow")
      /\ event'.simple_id # Flow.current_index + 1)
     => (user_data' = user_data /\ conv_state' = conv_state)]_vars

\* a Decision the handler accepts: the conversation awaits one and the simple
\* id is a key of the session's map
AcceptedDecision(status) ==
  /\ event'.cmd = "callback_query"
  /\ event'.status = status
  /\ conv_state = MARKING_ATTENDANCE
  /\ Has(user_data, "attendance_flow")
  /\ event'.simple_id \in DOMAIN Flow.attendance_map
\* the cursor moves on by one, or the session is finalized at the last employee
Advanced ==
  IF Flow.current_index + 1 < Len(Flow.employees)
  THEN /\ conv_state' = MARKING_ATTENDANCE
       /\ Has(user_data', "attendance_flow")
       /\ user_data'.attendance_flow.current_index = Flow.current_index + 1
  ELSE conv_state' = END /\ FinalizeStep

\* C3: a present Decision advances the cursor (or finalizes) in the same step;
\* an absent Decision moves to AwaitingReason with the cursor where it was;
\* in AwaitingReason a Reason advances by exactly one, a Decision changes
\* nothing, and no other event moves the cursor forward or finalizes.
C3_PresentAdvancesAbsentAwaitsReason ==
  [][/\ AcceptedDecision("present") => Advanced
     /\ AcceptedDecision("absent") =>
          /\ conv_state' = GETTING_REASON
          /\ user_data'.attendance_flow.current_index = Flow.current_index
          /\ attendance' = attendance
     /\ conv_state = GETTING_REASON =>
          /\ event'.cmd = "text" => Advanced
          /\ event'.cmd = "callback_query" =>
               user_data' = user_data /\ conv_state' = conv_state
          /\ event'.cmd # "text" =>
               /\ ~FinalizeStep
               /\ attendance' = attendance \/ event'.cmd = "command"
               /\ user_data'.attendance_flow.current_index <= Flow.current_index]_vars

\* a Reason has been given for the first employee and the second is prompted
C3_Witness ==
  /\ event.cmd = "text"
  /\ conv_state = MARKING_ATTENDANCE
  /\ Flow.current_index = 1
  /\ Flow.attendance[1].value = [status |-> "absent", reason |-> "sick"]

\* C4: every record of the batch Finalize submits whose key was not in the
\* store before is in the store afterwards, whatever collides beside it.
C4_CollisionKeepsSiblings ==
  [][FinalizeStep =>
       \A j \in 1..Len(records') :
         ~HasAttendanceKey(attendance, records'[j]) => BagIn(records'[j], attendance')]_vars

\* Finalize has just submitted a batch of which one record collided with a
\* bulk absence of the same day and another was persisted
C4_Witness ==
  /\ event.cmd \in {"callback_query", "text"}
  /\ Len(records) = 2
  /\ \E j, k \in 1..Len(records) :
       /\ ~BagIn(records[j], attendance)
       /\ BagIn([records[j] EXCEPT !.status = "absent", !.reason = "Not specified"],
                attendance)
       /\ BagIn(records[k], attendance)
       /\ records[k].status = "present"

\* C5: the store holds at most one record per (employee identifier, date).
C5_OneRecordPerKey ==
  /\ \A d \in BagToSet(attendance) : CopiesIn(d, attendance) = 1
  /\ \A d1, d2 \in BagToSet(attendance) : KeyOf(d1) = KeyOf(d2) => d1 = d2

\* a bulk absence has just been refused a record whose key a Finalize wrote
C5_Witness ==
  /\ event.cmd = "command"
  /\ \E j \in 1..Len(records) :
       /\ ~BagIn(records[j], attendance)
       /\ BagIn([records[j] EXCEPT !.status = "present", !.reason = ""], attendance)

\* C6: a record in the store stays as it is: no step removes it, and no step
\* puts another record with its key into the store.
C6_InsertOnly ==
  [][\A d \in BagToSet(attendance) :
       /\ BagIn(d, attendance')
       /\ \A e \in BagToSet(attendance') : KeyOf(e) = KeyOf(d) => e = d]_vars

\* a present decision has just been submitted for a key that holds a bulk
\* absence, and the absence is still there
C6_Witness ==
  /\ event.cmd = "callback_query"
  /\ \E j \in 1..Len(records) :
       /\ records[j].status = "present"
       /\ BagIn([records[j] EXCEPT !.status = "absent", !.reason = "Not specified"],
                attendance)

\* C7: no record is inserted for a date that is a Sunday or that is a holiday
\* when the record is inserted.
C7_NoRecordOnRestDayOrHoliday ==
  [][\A d \in BagToSet(attendance') :
       ~BagIn(d, attendance) => ~DateIsSunday(d.date) /\ ~is_holiday(d.date)]_vars

\* C8: a Start from Idle on a Sunday, on a holiday or without an active
\* employee creates no session, writes nothing and leaves the controller Idle.
C8_FailedStartChangesNothing ==
  [][(/\ event'.cmd = "mark_attendance"
      /\ conv_state = END
      /\ \/ weekday(today) = SUNDAY
         \/ \E i \in 1..Len(holidays) : holidays[i].date = format_date(today)
         \/ \A i \in 1..Len(employees) : ~employees[i].active)
     => /\ conv_state' = END
        /\ user_data' = user_data
        /\ store' = store]_vars

\* a Start has just failed on a Sunday with an active employee and no holiday
C8_Witness ==
  /\ event.cmd = "mark_attendance"
  /\ conv_state = END
  /\ weekday(today) = SUNDAY
  /\ ~is_holiday(format_date(today))
  /\ active_employees # <<>>
  /\ ~Has(user_data, "attendance_flow")

\* C9: a Decision or a Reason that arrives when the conversation is over or
\* was never started changes neither the operator's data nor the store.
C9_NoSessionNoEffect ==
  [][(event'.cmd \in {"callback_query", "text"} /\ conv_state = END)
     => /\ conv_state' = END
        /\ user_data' = user_data
        /\ store' = store]_vars

\* a Decision has just been rejected after a Finalize; the data of a session
\* that a failed Start ended is still there and was left alone too
C9_Witness ==
  /\ event.cmd = "callback_query"
  /\ conv_state = END
  /\ records = <<>>
  /\ attendance # EmptyBag
  /\ Has(user_data, "attendance_flow")

\* a record of the batch comes from the accumulator or from the event itself
FromSession(r) ==
  \/ \E i \in 1..Len(Flow.attendance) :
       /\ Flow.attendance[i].key = r.employee_id
       /\ Flow.attendance[i].value.status = r.status
       /\ r.reason = IF Has(Flow.attendance[i].value, "reason")
                     THEN Flow.attendance[i].value.reason ELSE ""
  \/ /\ event'.cmd = "callback_query"
     /\ r = [employee_id |-> Flow.attendance_map[event'.simple_id],
             date |-> r.date, status |-> event'.status, reason |-> ""]
  \/ /\ event'.cmd = "text"
     /\ r = [employee_id |-> Flow.current_employee,
             date |-> r.date, status |-> "absent", reason |-> event'.text]

\* C10: a Start whose checks pass while a session is in flight replaces it:
\* cursor 0, empty accumulator, the active employees as the list, the state
\* AwaitingDecision, nothing written; and a Finalize submits only what the
\* accumulator of its own session holds.
C10_RestartDiscardsSession ==
  [][/\ (/\ event'.cmd = "mark_attendance"
         /\ conv_state \in {MARKING_ATTENDANCE, GETTING_REASON}
         /\ weekday(today) # SUNDAY
         /\ ~is_holiday(format_date(today))
         /\ active_employees # <<>>)
        => /\ conv_state' = MARKING_ATTENDANCE
           /\ user_data'.attendance_flow.current_index = 0
           /\ user_data'.attendance_flow.attendance = <<>>
           /\ user_data'.attendance_flow.employees = active_employees
           /\ ~Has(user_data'.attendance_flow, "current_employee")
           /\ store' = store
     /\ FinalizeStep => \A j \in 1..Len(records') : FromSession(records'[j])]_vars

\* a Start has just replaced a session that was awaiting a reason
C10_Witness ==
  /\ event.cmd = "mark_attendance"
  /\ conv_state = MARKING_ATTENDANCE
  /\ Flow.attendance = <<>>
  /\ Flow.current_index = 0
  /\ 2 \in keyboards
  /\ attendance = EmptyBag

\* C11: once Finalize has submitted its batch the session is gone and the
\* controller is Idle, whether all, some or none of the records were inserted.
C11_FinalizeEndsSession ==
  [][(event'.cmd \in {"callback_query", "text"} /\ records' # <<>>)
     => (~Has(user_data', "attendance_flow") /\ conv_state' = END)]_vars

\* Finalize has just submitted a batch of which every record collided
C11_Witness ==
  /\ event.cmd \in {"callback_query", "text"}
  /\ records # <<>>
  /\ \A j \in 1..Len(records) : ~BagIn(records[j], attendance)
  /\ ~Has(user_data, "attendance_flow")
  /\ conv_state = END

\* ====================================================== bulk absence alone
\* One /multiday_absence with its arguments on record, from a store with all
\* employees active, the employee list loaded or not, and some holidays
\* marked in the days up to today.
RECURSIVE SortedSeq(_)
SortedSeq(S) ==
  IF S = {} THEN <<>>
  ELSE LET m == CHOOSE x \in S : \A y \in S : x <= y
       IN <<m>> \o SortedSeq(S \ {m})

HolidaysOn(S) ==
  LET days == SortedSeq(S)
  IN [i \in 1..Len(days) |-> [date |-> format_date(days[i]), description |-> "fest"]]

InitAbsence ==
  /\ employees = [i \in 1..MaxEmployees |-> [_id |-> NewObjectId(i), active |-> TRUE]]
  /\ attendance = EmptyBag
  /\ holidays \in {HolidaysOn(S) : S \in {T \in SUBSET (0..MaxSpan) : Cardinality(T) <= MaxHolidays}}
  /\ user_data \in {EmptyDict,
                    Put(EmptyDict, "employee_map",
                        [i \in 1..MaxEmployees |-> str(NewObjectId(i))])}
  /\ conv_state = END
  /\ today = MaxSpan
  /\ keyboards = {}
  /\ records = <<>>
  /\ event = [cmd |-> "command"]
  /\ InitMain

BulkAbsence ==
  /\ event.cmd = "command"
  /\ \E simple_id \in 1..(MaxEmployees + 1), start_date \in 0..MaxSpan, end_date \in 0..MaxSpan,
        words \in {<<>>} \cup {<<r>> : r \in Reasons} :
       /\ event' = [cmd |-> "multiday_absence", simple_id |-> simple_id,
                    start_date |-> start_date, end_date |-> end_date, words |-> words]
       /\ multiday_absence_args(simple_id, start_date, end_date, words)

SpecAbsence == InitAbsence /\ [][BulkAbsence]_vars

\* the employee a bulk absence names, when the list is loaded and holds it
Resolved(a) == Has(user_data, "employee_map") /\ a.simple_id \in DOMAIN user_data.employee_map

\* C12: for a range start <= end bulk-absence submits exactly one record per
\* date of the range that is neither a Sunday nor a holiday, absent and with
\* the given reason, and none for another date; a range with start > end is
\* rejected and the store stays as it is.
C12_BulkAbsenceOnePerWorkingDay ==
  [][event'.cmd = "multiday_absence" =>
       LET a == event'
           eligible == {d \in a.start_date..a.end_date :
                          /\ weekday(d) # SUNDAY
                          /\ \A i \in 1..Len(holidays) : holidays[i].date # format_date(d)}
           reason == IF a.words = <<>> THEN "Not specified" ELSE a.words[1]
       IN IF a.start_date > a.end_date
          THEN attendance' = attendance /\ records' = <<>>
          ELSE Resolved(a)
               => /\ Len(records') = Cardinality(eligible)
                  /\ \A d \in eligible :
                       \E j \in 1..Len(records') :
                         /\ records'[j] = [employee_id |-> user_data.employee_map[a.simple_id],
                                           date |-> format_date(d),
                                           status |-> "absent",
                                           reason |-> reason]
                         /\ BagIn(records'[j], attendance')]_vars

\* a bulk absence over the ten days of the window, of which two are Sundays
\* and one is a holiday, has just submitted seven records with the reason
C12_Witness ==
  /\ event.cmd = "multiday_absence"
  /\ event.start_date = 0 /\ event.end_date = 9
  /\ event.words = <<"sick">>
  /\ Len(holidays) = 1
  /\ Len(records) = 7
  /\ \A j \in 1..Len(records) : records[j].reason = "sick" /\ BagIn(records[j], attendance)

\* ================================================================ reports
\* The report commands read the store and reply; they are looked at from
\* stores the bot can have written: every employee active and listed, each
\* employee with at most one record per working day, present only up to
\* today (a session dates its records today, a bulk absence any day), at
\* most one holiday, marked on its day.
ReportReasons == {"sick", "Not specified"}
RecordDays == {d \in 0..MaxReportDay : weekday(d) # SUNDAY}
Slots == (1..MaxEmployees) \X RecordDays
NoMark == [status |-> "none", reason |-> ""]
Marks == {[status |-> "present", reason |-> ""]}
           \cup {[status |-> "absent", reason |-> r] : r \in ReportReasons}

\* the records finalize_attendance and multiday_absence write for the marks f
StoreOf(f) ==
  SetToBag({[employee_id |-> str(NewObjectId(s[1])), date |-> format_date(s[2]),
             status |-> f[s].status, reason |-> f[s].reason] :
            s \in {t \in Slots : f[t] # NoMark}})

InitReports ==
  /\ employees = [i \in 1..MaxEmployees |-> [_id |-> NewObjectId(i), active |-> TRUE]]
  /\ today \in 0..MaxReportDay
  /\ attendance \in {StoreOf(f) : f \in {g \in [Slots -> Marks \cup {NoMark}] :
                                           \A t \in Slots : g[t].status = "present" => t[2] <= today}}
  /\ holidays \in {HolidaysOn(S) : S \in {T \in SUBSET (0..today) : Cardinality(T) <= 1}}
  /\ user_data = Put(EmptyDict, "employee_map",
                     [i \in 1..MaxEmployees |-> str(NewObjectId(i))])
  /\ conv_state = END
  /\ keyboards = {}
  /\ records = <<>>
  /\ event = [cmd |-> "command"]
  /\ InitMain

\* ---- MongoDB queries
\* "$gte" and "$lte" on two strings compare them character by character; on
\* "DD-MM-YYYY" that is the order of the day, then the month, then the year.
StrLE(a, b) ==
  \/ a[1] < b[1]
  \/ a[1] = b[1] /\ a[2] < b[2]
  \/ a[1] = b[1] /\ a[2] = b[2] /\ a[3] <= b[3]

\* {"date": {"$gte": first, "$lte": last}}
InStrRange(date, first, last) == StrLE(first, date) /\ StrLE(date, last)

\* attendance.find({}), as a set of documents; a filter selects among them
documents == BagToSet(attendance)

\* the number of documents of the collection among docs
Count(docs) == BagCardinality([r \in docs |-> attendance[r]])

\* {"$group": {"_id": "$employee_id", "present": ..., "absent": ...}}
group_by_employee(matched) ==
  {[_id |-> id,
    present |-> Count({r \in matched : r.employee_id = id /\ r.status = "present"}),
    absent |-> Count({r \in matched : r.employee_id = id /\ r.status = "absent"})] :
   id \in {r.employee_id : r \in matched}}

\* {"$lookup": {"from": "employees", "localField": "_id", "foreignField":
\* "_id"}} followed by {"$unwind": "$employee"}: a group stays when an
\* employee document has an _id equal to the group's, value and type
lookup_unwind(groups) ==
  {g \in groups : \E i \in 1..Len(employees) : employees[i]._id = g._id}

RECURSIVE SumOf(_, _)
SumOf(rs, field) ==
  IF rs = {} THEN 0
  ELSE LET r == CHOOSE x \in rs : TRUE IN r[field] + SumOf(rs \ {r}, field)

\* ---- /daily_report and /date_report
\* the pipeline joins on "employee_id"; the counts come from count_documents
date_report(d) ==
  LET date_str == format_date(d)
      matched == {r \in documents : r.date = date_str}
  IN [records |-> {r \in matched :
                     \E i \in 1..Len(employees) : employees[i]._id = r.employee_id},
      present_count |-> Count({r \in documents : r.date = date_str /\ r.status = "present"}),
      absent_count |-> Count({r \in documents : r.date = date_str /\ r.status = "absent"})]

daily_report == date_report(today)

\* ---- generate_period_report
\* outcome is the reply, or the exception the handler ends with
generate_period_report(start_date, end_date) ==
  LET start_str == format_date(start_date)
      end_str == format_date(end_date)
      matched == {r \in documents : InStrRange(r.date, start_str, end_str)}
      results == lookup_unwind(group_by_employee(matched))
      total_present == SumOf(results, "present")
      total_absent == SumOf(results, "absent")
  IN [matched |-> matched,
      results |-> results,
      total_present |-> total_present,
      total_absent |-> total_absent,
      outcome |-> IF total_present + total_absent = 0
                  THEN "ZeroDivisionError" ELSE "reply"]

ReadOnly ==
  /\ UNCHANGED <<employees, attendance, holidays, user_data, conv_state, today, keyboards, main_loop>>
  /\ records' = <<>>

DailyReport ==
  /\ event' = [cmd |-> "daily_report", report |-> daily_report]
  /\ ReadOnly

DateReport ==
  \E d \in 0..MaxReportDay :
    /\ event' = [cmd |-> "date_report", date |-> d, report |-> date_report(d)]
    /\ ReadOnly

PeriodReport(period_name, start_date, end_date) ==
  /\ event' = [cmd |-> period_name, start_date |-> start_date, end_date |-> end_date,
               report |-> generate_period_report(start_date, end_date)]
  /\ ReadOnly

last_7_days_report == PeriodReport("last_7_days", today - 6, today)

last_30_days_report == PeriodReport("last_30_days", today - 29, today)

\* generate_period_report on any range start <= end
custom_period_report ==
  \E start_date \in 0..MaxReportDay, end_date \in 0..MaxReportDay :
    /\ start_date <= end_date
    /\ PeriodReport("period", start_date, end_date)

\* ---- /employee_report
\* round(x) of Python on the quotient 100 * present / total: to the nearest
\* integer, a half to the even one
round_percent(present, total) ==
  LET q == (100 * present) \div total
      r == (100 * present) % total
  IN IF 2 * r < total THEN q
     ELSE IF 2 * r > total THEN q + 1
     ELSE IF q % 2 = 0 THEN q ELSE q + 1

\* cursor.sort("date", -1): the documents by decreasing date string
RECURSIVE sort_date_desc(_)
sort_date_desc(docs) ==
  IF docs = {} THEN <<>>
  ELSE LET m == CHOOSE x \in docs : \A y \in docs : StrLE(y.date, x.date)
       IN <<m>> \o sort_date_desc(docs \ {m})

\* cursor.limit(n), list[:n]
limit(seq, n) == SubSeq(seq, 1, IF Len(seq) < n THEN Len(seq) ELSE n)

employee_report(simple_id) ==
  IF employee_map = <<>> THEN [outcome |-> "Employee list not loaded"]
  ELSE IF simple_id \notin DOMAIN employee_map THEN [outcome |-> "Invalid employee ID"]
  ELSE LET emp_id == employee_map[simple_id] IN
    IF ~\E i \in 1..Len(employees) : employees[i]._id = ObjectId(emp_id)
    THEN [outcome |-> "Employee not found"]
    ELSE LET end_date == today
             start_date == end_date - 29
             start_str == format_date(start_date)
             end_str == format_date(end_date)
             matched == {r \in documents : /\ r.employee_id = emp_id
                                           /\ InStrRange(r.date, start_str, end_str)}
             present == Count({r \in matched : r.status = "present"})
             absent == Count({r \in matched : r.status = "absent"})
             total == present + absent
             trend_start == end_date - 6
             absences == limit(sort_date_desc({r \in documents : /\ r.employee_id = emp_id
                                                                 /\ r.status = "absent"}), 3)
         IN [outcome |-> "reply",
             present |-> present,
             absent |-> absent,
             rate |-> IF total > 0 THEN round_percent(present, total) ELSE 0,
             trend |-> [i \in 1..7 |->
                          LET day_str == format_date(trend_start + i - 1)
                              found == {r \in documents : r.employee_id = emp_id /\ r.date = day_str}
                          IN IF found = {} THEN "none"
                             ELSE (CHOOSE r \in found : TRUE).status],
             absences |-> [i \in 1..Len(absences) |->
                             [date |-> absences[i].date, reason |-> absences[i].reason]]]

EmployeeReport ==
  \E simple_id \in 1..(MaxEmployees + 1) :
    /\ event' = [cmd |-> "employee_report", simple_id |-> simple_id,
                 report |-> employee_report(simple_id)]
    /\ ReadOnly

\* ---- /monthly_report
\* today.replace(day=1) and the last day of today's month, formatted
first_day_str == <<1, DateAt(today)[2], DateAt(today)[3]>>
last_day_str ==
  <<DaysInMonth(DateAt(today)[2], DateAt(today)[3]), DateAt(today)[2], DateAt(today)[3]>>

\* the result of an aggregation or a sort has the documents in some order
Orderings(S) ==
  {o \in [1..Cardinality(S) -> S] : \A i, j \in 1..Cardinality(S) : i # j => o[i] # o[j]}

\* the floats present_days / total_days * 100 are ordered as the fractions
PercentGE(x, y) == x.percentage.num * y.percentage.den >= y.percentage.num * x.percentage.den
PercentGT(x, y) == x.percentage.num * y.percentage.den > y.percentage.num * x.percentage.den

\* mutant of sorted_by_percentage: an entry goes before the entries it ties with
RECURSIVE sorted_by_percentage_unstable(_)
sorted_by_percentage_unstable(seq) ==
  IF seq = <<>> THEN <<>>
  ELSE LET x == seq[Len(seq)]
           s == sorted_by_percentage_unstable(SubSeq(seq, 1, Len(seq) - 1))
           k == Cardinality({i \in 1..Len(s) : PercentGT(s[i], x)})
       IN SubSeq(s, 1, k) \o <<x>> \o SubSeq(s, k + 1, Len(s))

\* sorted(employee_performance, key=lambda x: x['percentage'], reverse=True):
\* by decreasing percentage, entries with equal percentages in their order
\* in the list
RECURSIVE sorted_by_percentage(_)
sorted_by_percentage(seq) ==
  IF seq = <<>> THEN <<>>
  ELSE LET x == seq[Len(seq)]
           s == sorted_by_percentage(SubSeq(seq, 1, Len(seq) - 1))
           k == Cardinality({i \in 1..Len(s) : PercentGE(s[i], x)})
       IN SubSeq(s, 1, k) \o <<x>> \o SubSeq(s, k + 1, Len(s))

\* the $project stage of the performance pipeline
performance_entry(id, present_days, absent_days, total_days) ==
  [_id |-> id, present_days |-> present_days, absent_days |-> absent_days,
   percentage |-> [num |-> 100 * present_days, den |-> total_days]]

\* the performance pipeline: $match, $group, $lookup, $unwind, $project
monthly_performance ==
  LET matched == {r \in documents : InStrRange(r.date, first_day_str, last_day_str)}
      groups == {[_id |-> id,
                  present_days |-> Count({r \in matched : r.employee_id = id /\ r.status = "present"}),
                  absent_days |-> Count({r \in matched : r.employee_id = id /\ r.status = "absent"}),
                  total_days |-> Count({r \in matched : r.employee_id = id})] :
                 id \in {r.employee_id : r \in matched}}
  IN {performance_entry(g._id, g.present_days, g.absent_days, g.total_days) :
      g \in lookup_unwind(groups)}

\* reason_pipeline up to $group; of the two "$ne" keys of the reason filter
\* the dict keeps the last, {"$ne": ""}
reason_groups ==
  LET matched == {r \in documents : /\ r.status = "absent"
                                    /\ r.reason # ""
                                    /\ InStrRange(r.date, first_day_str, last_day_str)}
  IN {[_id |-> reason, count |-> Count({r \in matched : r.reason = reason})] :
      reason \in {r.reason : r \in matched}}

\* {"$sort": {"count": -1}}: any order with the counts not increasing
sort_count_desc(groups) ==
  {o \in Orderings(groups) : \A i, j \in 1..Len(o) : i < j => o[i].count >= o[j].count}

monthly_report(employee_performance, reasons) ==
  [working_days |-> {r.date : r \in {x \in documents :
                                       InStrRange(x.date, first_day_str, last_day_str)}},
   holiday_list |-> SelectSeq(holidays, LAMBDA h : InStrRange(h.date, first_day_str, last_day_str)),
   total_present |-> SumOf(monthly_performance, "present_days"),
   total_absent |-> SumOf(monthly_performance, "absent_days"),
   employee_performance |-> sorted_by_percentage(employee_performance),
   top_reasons |-> limit(reasons, 3)]

MonthlyReport ==
  \E employee_performance \in Orderings(monthly_performance),
     reasons \in sort_count_desc(reason_groups) :
    /\ event' = [cmd |-> "monthly_report",
                 report |-> monthly_report(employee_performance, reasons)]
    /\ ReadOnly

NextReports ==
  \/ DailyReport
  \/ DateReport
  \/ last_7_days_report
  \/ last_30_days_report
  \/ custom_period_report
  \/ EmployeeReport
  \/ MonthlyReport

SpecReports == InitReports /\ [][NextReports]_vars

\* the records dated in the calendar range start_date .. end_date
InCalendarRange(start_date, end_date) ==
  {r \in BagToSet(attendance) : \E d \in start_date..end_date : r.date = format_date(d)}

PeriodCmds == {"last_7_days", "last_30_days", "period"}

\* C13: a period summary over start <= end takes into account exactly the
\* records whose calendar date lies in start .. end, across month and year
\* boundaries too, and reports for each employee with such records the
\* number of them that are present and the number that are absent.
C13_PeriodCountsRecordsInRange ==
  event.cmd \in PeriodCmds =>
    LET inrange == InCalendarRange(event.start_date, event.end_date)
    IN /\ event.report.matched = inrange
       /\ \A id \in {r.employee_id : r \in inrange} :
            \E g \in event.report.results :
              /\ g._id = id
              /\ g.present = Count({r \in inrange : r.employee_id = id /\ r.status = "present"})
              /\ g.absent = Count({r \in inrange : r.employee_id = id /\ r.status = "absent"})

\* C14: a period summary never ends in a division fault, whatever the store
\* and the range; when no record falls in the range it replies with zero
\* totals.
C14_PeriodNoDivisionFault ==
  event.cmd \in PeriodCmds =>
    /\ event.report.outcome # "ZeroDivisionError"
    /\ InCalendarRange(event.start_date, event.end_date) = {}
         => event.report.total_present = 0 /\ event.report.total_absent = 0

\* C16: over a single day d the period summary reports the total present
\* and total absent that the daily summary of d reports as its counts.
C16_SingleDayPeriodEqualsDaily ==
  (event.cmd \in PeriodCmds /\ event.start_date = event.end_date) =>
    /\ event.report.total_present = date_report(event.end_date).present_count
    /\ event.report.total_absent = date_report(event.end_date).absent_count

\* the records of the employee a report event names
RecordsOf(simple_id) ==
  {r \in BagToSet(attendance) : r.employee_id = user_data.employee_map[simple_id]}

\* C15: the rate of an employee summary is present / (present + absent) over
\* the employee's records of the 30 days that end today when there are any,
\* and 0 when there are none; the summary never ends in a division fault.
C15_EmployeeRateOverWindow ==
  (event.cmd = "employee_report" /\ event.simple_id \in 1..MaxEmployees) =>
    LET inwindow == RecordsOf(event.simple_id) \cap InCalendarRange(today - 29, today)
        present == Count({r \in inwindow : r.status = "present"})
        absent == Count({r \in inwindow : r.status = "absent"})
    IN /\ event.report.outcome = "reply"
       /\ event.report.rate = IF present + absent > 0
                              THEN round_percent(present, present + absent) ELSE 0

\* the day a record is dated, as an offset from BaseDate
DayOf(date) == CHOOSE d \in RecordDays : format_date(d) = date

\* C20: the recent-absence list of an employee summary holds the employee's
\* absent records with the 3 latest calendar dates, the most recent first,
\* also when the dates lie in different months or years.
C20_RecentAbsencesLatestFirst ==
  (event.cmd = "employee_report" /\ event.simple_id \in 1..MaxEmployees) =>
    LET absent == {r \in RecordsOf(event.simple_id) : r.status = "absent"}
        listed == event.report.absences
        dates == {listed[i].date : i \in 1..Len(listed)}
    IN /\ Len(listed) = (IF Cardinality(absent) < 3 THEN Cardinality(absent) ELSE 3)
       /\ \A i \in 1..Len(listed) :
            \E r \in absent : r.date = listed[i].date /\ r.reason = listed[i].reason
       /\ \A i \in 1..Len(listed), j \in 1..Len(listed) :
            i < j => DayOf(listed[i].date) > DayOf(listed[j].date)
       /\ \A r \in absent :
            r.date \notin dates => \A i \in 1..Len(listed) : DayOf(r.date) < DayOf(listed[i].date)

\* the date lies in today's calendar month
InMonth(date) == date[2] = DateAt(today)[2] /\ date[3] = DateAt(today)[3]

RecordsInMonth == {r \in BagToSet(attendance) : InMonth(r.date)}

\* C17: the monthly summary takes into account only records and holidays
\* dated in today's calendar month: none of another month or year
\* contributes to the working days, the totals, the per-employee figures or
\* the holiday list.
C17_MonthlyOnlyCurrentMonth ==
  event.cmd = "monthly_report" =>
    LET report == event.report IN
    /\ \A date \in report.working_days : InMonth(date)
    /\ \A i \in 1..Len(report.holiday_list) : InMonth(report.holiday_list[i].date)
    /\ report.total_present <= Count({r \in RecordsInMonth : r.status = "present"})
    /\ report.total_absent <= Count({r \in RecordsInMonth : r.status = "absent"})
    /\ \A i \in 1..Len(report.employee_performance) :
         LET e == report.employee_performance[i] IN
         /\ e.present_days <= Count({r \in RecordsInMonth :
                                       r.employee_id = e._id /\ r.status = "present"})
         /\ e.absent_days <= Count({r \in RecordsInMonth :
                                      r.employee_id = e._id /\ r.status = "absent"})

\* C19: the absence-reason list of the monthly summary has at most 3
\* reasons, none empty, each with the number of absent records of the month
\* that carry it, and no reason left out has a strictly higher count than a
\* reason listed.
C19_TopReasonsOfMonth ==
  event.cmd = "monthly_report" =>
    LET top == event.report.top_reasons
        InMonthCount(reason) ==
          Count({r \in RecordsInMonth : r.status = "absent" /\ r.reason = reason})
        listed == {top[i]._id : i \in 1..Len(top)}
    IN /\ Len(top) <= 3
       /\ \A i \in 1..Len(top) :
            /\ top[i]._id # ""
            /\ top[i].count = InMonthCount(top[i]._id)
       /\ \A reason \in ReportReasons \ listed :
            \A i \in 1..Len(top) : InMonthCount(reason) <= top[i].count

\* ========================================================= ranking alone
\* The sort of the monthly report, applied to every list the performance
\* pipeline can return for up to MaxEmployees + 1 employees with up to
\* MaxDay + 1 records each in the month: one entry per employee, in any
\* order.
PerformanceEntries ==
  {performance_entry(NewObjectId(i), days[1], days[2], days[1] + days[2]) :
     i \in 1..(MaxEmployees + 1),
     days \in {d \in (0..(MaxDay + 1)) \X (0..(MaxDay + 1)) : d[1] + d[2] \in 1..(MaxDay + 1)}}

PerformanceLists ==
  UNION {{l \in [1..n -> PerformanceEntries] :
            \A i, j \in 1..n : i # j => l[i]._id # l[j]._id} :
         n \in 0..(MaxEmployees + 1)}

InitRanking ==
  /\ employees = [i \in 1..MaxEmployees |-> [_id |-> NewObjectId(i), active |-> TRUE]]
  /\ attendance = EmptyBag
  /\ holidays = <<>>
  /\ user_data = EmptyDict
  /\ conv_state = END
  /\ today = 0
  /\ keyboards = {}
  /\ records = <<>>
  /\ event \in {[cmd |-> "employee_performance", list |-> l] : l \in PerformanceLists}
  /\ InitMain

RankPerformance ==
  /\ event.cmd = "employee_performance"
  /\ event' = [cmd |-> "sorted", list |-> event.list,
               sorted |-> sorted_by_percentage(event.list)]
  /\ ReadOnly

SpecRanking == InitRanking /\ [][RankPerformance]_vars

\* the place of an entry in the list the aggregation returned
PlaceIn(list, e) == CHOOSE i \in 1..Len(list) : list[i] = e

SameRate(x, y) == PercentGE(x, y) /\ PercentGE(y, x)

\* C18: the monthly summary lists the employees of the aggregation, each
\* once, by non-increasing attendance rate, and employees with equal rates
\* stay in the order in which the aggregation returned them.
C18_RankingDescendingStable ==
  event.cmd = "sorted" =>
    LET list == event.list
        sorted == event.sorted
    IN /\ Len(sorted) = Len(list)
       /\ {sorted[i] : i \in 1..Len(sorted)} = {list[i] : i \in 1..Len(list)}
       /\ \A i, j \in 1..Len(sorted) :
            i < j => /\ PercentGE(sorted[i], sorted[j])
                     /\ SameRate(sorted[i], sorted[j])
                          => PlaceIn(list, sorted[i]) < PlaceIn(list, sorted[j])

\* three employees returned as 50%, 100% (1 of 1), 100% (2 of 2) have been
\* listed as the two at 100% in their order, then the one at 50%
C18_Witness ==
  /\ event.cmd = "sorted"
  /\ Len(event.list) = 3
  /\ PercentGT(event.list[2], event.list[1])
  /\ SameRate(event.list[2], event.list[3])
  /\ event.list[2].present_days # event.list[3].present_days
  /\ event.sorted = <<event.list[2], event.list[3], event.list[1]>>

\* ===================================================== employees and holidays
\* C21: no employee document is ever deleted: removal only clears active, so
\* the identifiers in the store never shrink and every attendance record
\* names an employee that is in the store, active or not.
C21_EmployeesNeverDeleted ==
  [][/\ \A i \in 1..Len(employees) :
          \E j \in 1..Len(employees') : employees'[j]._id = employees[i]._id
     /\ \A r \in BagToSet(attendance') :
          \E j \in 1..Len(employees') : str(employees'[j]._id) = r.employee_id]_vars

\* an employee with an attendance record has been removed: the document is
\* in the store, inactive
C21_Witness ==
  \E r \in BagToSet(attendance) :
    \E j \in 1..Len(employees) :
      str(employees[j]._id) = r.employee_id /\ ~employees[j].active

\* ---- the holiday commands alone, with their arguments on record
HolidayNames == {"fest", "eid"}

MarkHoliday ==
  \E description \in HolidayNames :
    /\ event' = [cmd |-> "mark_holiday", description |-> description]
    /\ mark_holiday_args(description)

RemoveHoliday ==
  \E d \in 0..MaxHolidayDay :
    /\ event' = [cmd |-> "remove_holiday", date |-> d]
    /\ remove_holiday_args(d)

HolidayDayChange ==
  /\ today < MaxHolidayDay
  /\ today' = today + 1
  /\ event' = [cmd |-> "day_change"]
  /\ UNCHANGED <<employees, attendance, holidays, user_data, conv_state, keyboards, main_loop>> /\ records' = <<>>

NextHolidays ==
  \/ MarkHoliday
  \/ RemoveHoliday
  \/ HolidayDayChange

SpecHolidays == Init /\ [][NextHolidays]_vars

\* C22: marking a date that already is a holiday is rejected and leaves the
\* holidays, the description of that date included, as they were; there is
\* never more than one holiday per date.
C22_DuplicateHolidayRejected ==
  [][/\ (event'.cmd = "mark_holiday" /\ is_holiday(format_date(today)))
          => holidays' = holidays
     /\ \A i, j \in 1..Len(holidays') :
          holidays'[i].date = holidays'[j].date => i = j]_vars

\* today, a holiday called fest, has just been marked again as eid, with a
\* holiday of another day in the store
C22_Witness ==
  /\ event.cmd = "mark_holiday"
  /\ event.description = "eid"
  /\ Len(holidays) = 2
  /\ \E i \in 1..Len(holidays) :
       holidays[i].date = format_date(today) /\ holidays[i].description = "fest"

ReasonOf(value) == IF Has(value, "reason") THEN value.reason ELSE ""

\* C24: a Reason(text) while the reason of the employee at the cursor is
\* awaited gives the accumulator entry of that employee the reason text and
\* changes no other entry; the record committed for the employee is absent
\* with that text; and every committed record that is present has an empty
\* reason.
C24_ReasonGoesToEmployeeAtCursor ==
  [][/\ (event'.cmd = "text" /\ conv_state = GETTING_REASON /\ Has(user_data, "attendance_flow"))
          => LET emp == str(Flow.employees[Flow.current_index + 1]._id)
                 others == {k \in 1..Len(Flow.attendance) : Flow.attendance[k].key # emp}
             IN IF Has(user_data', "attendance_flow")
                THEN LET acc == user_data'.attendance_flow.attendance
                     IN /\ HasKey(acc, emp)
                        /\ DictGet(acc, emp) = [status |-> "absent", reason |-> event'.text]
                        /\ \A k \in others : acc[k] = Flow.attendance[k]
                ELSE /\ \E j \in 1..Len(records') :
                          /\ records'[j].employee_id = emp
                          /\ records'[j].status = "absent"
                          /\ records'[j].reason = event'.text
                     /\ \A k \in others :
                          \E j \in 1..Len(records') :
                            /\ records'[j].employee_id = Flow.attendance[k].key
                            /\ records'[j].status = Flow.attendance[k].value.status
                            /\ records'[j].reason = ReasonOf(Flow.attendance[k].value)
     /\ FinalizeStep
          => \A j \in 1..Len(records') :
               records'[j].status = "present" => records'[j].reason = ""]_vars

\* C25: the per-employee list of a daily summary has exactly one entry per
\* attendance record of its date, with that record's status and reason, so
\* its length is the present count plus the absent count it reports.
C25_DailyListMatchesCounts ==
  event.cmd \in {"daily_report", "date_report"} =>
    LET d == IF event.cmd = "daily_report" THEN today ELSE event.date
        ondate == {r \in documents : r.date = format_date(d)}
    IN /\ event.report.records = ondate
       /\ Cardinality(event.report.records)
            = event.report.present_count + event.report.absent_count

\* ================================================= a session answered in order
\* The operator starts a session when none is in flight, presses a button of
\* the keyboard of the current prompt and types a reason when one is asked
\* for; the events carry the number of decisions taken since the Start.
EmployeeLists ==
  UNION {[1..n -> {TRUE, FALSE}] : n \in 0..(MaxEmployees + 1)}

InitSession ==
  /\ \E flags \in EmployeeLists :
       employees = [i \in 1..Len(flags) |-> [_id |-> NewObjectId(i), active |-> flags[i]]]
  /\ attendance = EmptyBag
  /\ holidays = <<>>
  /\ user_data = EmptyDict
  /\ conv_state = END
  /\ today \in Days
  /\ keyboards = {}
  /\ records = <<>>
  /\ event = [cmd |-> "command", decisions |-> 0]
  /\ InitMain

Start ==
  /\ ~Has(user_data, "attendance_flow")
  /\ event' = [cmd |-> "mark_attendance", decisions |-> 0]
  /\ mark_attendance
  /\ UNCHANGED <<employees, attendance, holidays, today, main_loop>> /\ records' = <<>>

Decide ==
  /\ conv_handler("callback_query") = "handle_attendance_choice"
  /\ \E status \in Statuses :
       LET simple_id == Flow.current_index + 1
       IN /\ event' = [cmd |-> "callback_query", status |-> status, simple_id |-> simple_id,
                       decisions |-> event.decisions + 1]
          /\ handle_attendance_choice(status, simple_id)
  /\ UNCHANGED <<employees, holidays, today, main_loop>>

GiveReason ==
  /\ conv_handler("text") = "handle_reason"
  /\ \E text \in Reasons :
       /\ event' = [cmd |-> "text", text |-> text, decisions |-> event.decisions]
       /\ handle_reason(text)
  /\ UNCHANGED <<employees, holidays, today, main_loop>>

NextSession ==
  \/ Start
  \/ Decide
  \/ GiveReason

SpecSession ==
  /\ InitSession
  /\ [][NextSession]_vars
  /\ WF_vars(Decide)
  /\ WF_vars(GiveReason)

\* C26: a session of N employees whose prompts are all answered, each with a
\* decision for the prompted employee and a reason when one is asked for,
\* reaches Terminal; the k-th prompt is for the k-th employee of the list,
\* and Finalize comes after exactly N decisions, with the records in the
\* order of the list.
C26_AnsweredSessionTerminates ==
  /\ [](Has(user_data, "attendance_flow")
          => /\ conv_state = MARKING_ATTENDANCE => Flow.current_index = event.decisions
             /\ conv_state = GETTING_REASON => Flow.current_index = event.decisions - 1)
  /\ [][FinalizeStep
          => /\ event'.decisions = Len(Flow.employees)
             /\ Len(records') = Len(Flow.employees)
             /\ \A i \in 1..Len(records') :
                  records'[i].employee_id = str(Flow.employees[i]._id)]_vars
  /\ Has(user_data, "attendance_flow")
       ~> (~Has(user_data, "attendance_flow") /\ conv_state = END)

\* a session of three employees has ended after three decisions, the last an
\* absence with its reason
C26_Witness ==
  /\ event.cmd = "text"
  /\ event.decisions = 3
  /\ ~Has(user_data, "attendance_flow")
  /\ conv_state = END
  /\ Len(records) = 3
  /\ records[3].status = "absent" /\ records[3].reason = event.text

\* ====================================================== the restart loop
\* main from its first call of run_polling on; the handlers play no part.
Frozen ==
  UNCHANGED <<employees, attendance, holidays, user_data, conv_state, today,
              keyboards, records>>

\* run_polling returns: break
polling_stops ==
  /\ main_pc = "run_polling"
  /\ main_pc' = "stopped"
  /\ event' = [cmd |-> "run_polling returned"]
  /\ UNCHANGED <<max_retries, restarts>>
  /\ Frozen

\* run_polling raises Conflict: max_retries -= 1, sleep, and the loop goes
\* on while max_retries > 0
polling_conflict ==
  /\ main_pc = "run_polling"
  /\ max_retries' = max_retries - 1
  /\ IF max_retries - 1 > 0
     THEN main_pc' = "run_polling" /\ restarts' = restarts + 1
     ELSE main_pc' = "stopped" /\ UNCHANGED restarts
  /\ event' = [cmd |-> "Conflict"]
  /\ Frozen

\* run_polling raises another Exception: sleep, and the loop goes on, since
\* max_retries > 0 as before
polling_exception ==
  /\ main_pc = "run_polling"
  /\ restarts < MaxRestarts
  /\ main_pc' = "run_polling"
  /\ restarts' = restarts + 1
  /\ event' = [cmd |-> "Exception"]
  /\ UNCHANGED max_retries
  /\ Frozen

NextMain ==
  \/ polling_stops
  \/ polling_conflict
  \/ polling_exception

SpecMain == Init /\ [][NextMain]_vars

\* C27: whatever the failures of run_polling, polling conflicts or other
\* exceptions, the loop restarts it at most 5 times, and it is left at once
\* when run_polling returns.
C27_RestartsBounded ==
  /\ restarts <= 5
  /\ event.cmd = "run_polling returned" => main_pc = "stopped"

\* ================================================================ the cursor
\* the snapshot ids of a flow: str(emp['_id']) of its employees
SnapshotIds(flow) == {str(flow.employees[i]._id) : i \in 1..Len(flow.employees)}

\* C28: whenever a session exists, 0 <= cursor < number of employees of the
\* snapshot and every key of the accumulator is the identifier of an
\* employee of the snapshot; and as long as the session is not replaced by a
\* new Start, the cursor never decreases.
C28_CursorInRange ==
  [][/\ Has(user_data', "attendance_flow")
          => LET flow == user_data'.attendance_flow
             IN /\ 0 <= flow.current_index
                /\ flow.current_index < Len(flow.employees)
                /\ \A k \in 1..Len(flow.attendance) :
                     flow.attendance[k].key \in SnapshotIds(flow)
     /\ (/\ Has(user_data, "attendance_flow")
         /\ Has(user_data', "attendance_flow")
         /\ event'.cmd # "mark_attendance")
          => user_data'.attendance_flow.current_index >= Flow.current_index]_vars

\* a session of two employees stands at its second employee with the
\* decision for the first one in the accumulator
C28_Witness ==
  /\ Has(user_data, "attendance_flow")
  /\ Len(Flow.employees) = 2
  /\ Flow.current_index = 1
  /\ Len(Flow.attendance) = 1
  /\ event.cmd = "callback_query"

\* ================================================================ a Start that fails
\* C29: a /mark_attendance that fails a precondition (Sunday, holiday or no
\* active employee) while a session is in flight leaves the session as it
\* was: the same flow in user_data and the same state of the conversation.
C29_FailedStartKeepsSession ==
  [][(/\ event'.cmd = "mark_attendance"
      /\ Has(user_data, "attendance_flow")
      /\ conv_state # END
      /\ \/ weekday(today) = SUNDAY
         \/ is_holiday(format_date(today))
         \/ active_employees = <<>>)
       => /\ user_data' = user_data
          /\ conv_state' = conv_state]_vars

====
